---- MODULE Spec2Model ----
(***************************************************************************)
(* walNUT integration plugin loader (src/loader.py).                       *)
(*                                                                         *)
(* Specifications over one set of variables:                               *)
(*   Spec       one run of main(): interactive_loop loads the manifest,    *)
(*              then calls load_driver and reports its failure;            *)
(*   SpecScope  PluginImportPath objects used as context managers around   *)
(*              the driver import block (enter, body, exit), step by step, *)
(*              several at once, with process interruption;                *)
(*   SpecInvoke the calling-convention loop of do_action over driver       *)
(*              methods of every signature shape and body behaviour;       *)
(*   SpecConstruct  the construction of the driver in load_driver;         *)
(*   SpecResolve, SpecConform, SpecValidate  the pure functions            *)
(*              get_plugin_site_packages, validate_capability_conformance   *)
(*              and validate_plugin_manifest applied to bounded inputs.     *)
(* A path is a tuple of its components; str(p) equality is tuple equality. *)
(***************************************************************************)
EXTENDS Integers, Sequences, FiniteSets, TLC

VARIABLES
    deps,        \* the plugin directory's dependency directories (on disk)
    plugin,      \* the plugin directory's manifest and driver module (on disk)
    sys_path,    \* sys.path, the process-wide search path list
    owner,       \* ghost, aligned with sys_path: 0 = entry present at start, i = inserted by scope i
    path0,       \* ghost: sys.path at process start
    scope,       \* the PluginImportPath objects and the position of their with-blocks
    run,         \* main() / interactive_loop() / load_driver(): position and outcome
    inv,         \* do_action's attempt loop: the method called and the loop's state
    con,         \* load_driver's construction of the driver: the class called and the calls made
    pure         \* a pure function of the loader under evaluation: its inputs and its results

vars == <<deps, plugin, sys_path, owner, path0, scope, run, inv, con, pure>>

----------------------------------------------------------------------------
(* Bounds *)

NumScopes == 2        \* PluginImportPath objects alive in one process
MaxSysPath == 2       \* length of sys.path at process start
MaxCaps == 2          \* capabilities declared by a manifest

----------------------------------------------------------------------------
(* Python list primitives *)

InList(p, s) == \E k \in 1..Len(s) : s[k] = p

FirstIndex(p, s) == CHOOSE k \in 1..Len(s) : s[k] = p /\ \A j \in 1..(k - 1) : s[j] # p

RemoveAt(s, k) == [j \in 1..(Len(s) - 1) |-> IF j < k THEN s[j] ELSE s[j + 1]]

Reversed(s) == [k \in 1..Len(s) |-> s[Len(s) + 1 - k]]

RECURSIVE Unique(_, _)
Unique(s, acc) ==
    IF s = <<>> THEN acc
    ELSE IF InList(Head(s), acc) THEN Unique(Tail(s), acc)
         ELSE Unique(Tail(s), Append(acc, Head(s)))

----------------------------------------------------------------------------
(* The plugin directory and the dependency path resolver *)

here == <<"plugin">>

Kinds == {"absent", "file", "dir"}

PythonNames == {"python3.11", "python3.12"}

ChildNames == PythonNames \cup {"tmp"}

Children == [name : ChildNames, isdir : BOOLEAN, sp : BOOLEAN]

RECURSIVE LibSitePackages(_, _)
LibSitePackages(base, kids) ==
    IF kids = <<>> THEN <<>>
    ELSE LET child == Head(kids)
             rest == LibSitePackages(base, Tail(kids))
         IN  IF child.isdir /\ child.name \in PythonNames /\ child.sp
             THEN <<base \o <<child.name, "site-packages">>>> \o rest
             ELSE rest

\* a result is <<"ok", list>> or <<"raise", error>>
candidate_site_packages(venv_dir, d) ==
    IF d.lib = "file" THEN <<"raise", "NotADirectoryError">>
    ELSE IF d.lib = "dir" /\ d.lib64 = "file" THEN <<"raise", "NotADirectoryError">>
    ELSE LET lib == IF d.lib = "dir" THEN LibSitePackages(venv_dir \o <<"lib">>, d.libKids) ELSE <<>>
             lib64 == IF d.lib = "dir" /\ d.lib64 = "dir"
                      THEN LibSitePackages(venv_dir \o <<"lib64">>, d.lib64Kids) ELSE <<>>
             win == IF d.winSP THEN <<venv_dir \o <<"Lib", "site-packages">>>> ELSE <<>>
         IN  <<"ok", Unique(lib \o lib64 \o win, <<>>)>>

\* mutant of get_plugin_site_packages: the vendor directories are collected first
get_plugin_site_packages_VendorFirst(plugin_dir, d) ==
    LET venv == IF d.venv = "dir" THEN candidate_site_packages(plugin_dir \o <<".venv">>, d)
                ELSE <<"ok", <<>>>>
        v1 == IF d.uvendor = "dir" THEN <<plugin_dir \o <<"_vendor">>>> ELSE <<>>
        v2 == IF d.vendor = "dir" THEN <<plugin_dir \o <<"vendor">>>> ELSE <<>>
    IN  IF venv[1] = "raise" THEN venv
        ELSE <<"ok", Unique(v1 \o v2 \o venv[2], <<>>)>>

get_plugin_site_packages(plugin_dir, d) ==
    LET venv == IF d.venv = "dir" THEN candidate_site_packages(plugin_dir \o <<".venv">>, d)
                ELSE <<"ok", <<>>>>
        v1 == IF d.uvendor = "dir" THEN <<plugin_dir \o <<"_vendor">>>> ELSE <<>>
        v2 == IF d.vendor = "dir" THEN <<plugin_dir \o <<"vendor">>>> ELSE <<>>
    IN  IF venv[1] = "raise" THEN venv
        ELSE <<"ok", Unique(venv[2] \o v1 \o v2, <<>>)>>

\* a string value of the manifest; the value of an absent key
Str(t) == [kind |-> "str", text |-> t]

NoEntry == [kind |-> "absent", text |-> <<>>]

\* the parts of the state a specification does not use
NoPlugin == [manifest |-> "dict", yaml |-> TRUE, schema |-> "absent", driver |-> "absent",
             entrypoint |-> NoEntry, files |-> {}, module |-> "good", id |-> "absent"]
NoRun == [pc |-> "off"]
NoInv == [pc |-> "off"]
NoCon == [pc |-> "off"]
NoPure == [pc |-> "off"]

----------------------------------------------------------------------------
(* PluginImportPath: __init__, __enter__, __exit__, and the with-block of   *)
(* load_driver that runs between them                                       *)

Scopes == 1..NumScopes

NewScope == [st |-> "new", todo |-> <<>>, removed |-> <<>>, k |-> 0, exc |-> "none"]

\* mutant of InsertFront: the path is appended, as sys.path.append(p) would do
InsertFront_Append(path, p) == Append(path, p)

\* sys.path.insert(0, p)
InsertFront(path, p) == <<p>> \o path

\* mutant of RemoveIndex: the front entry goes, as sys.path.pop(0) would do
RemoveIndex_Front(path, p) == 1

\* sys.path.remove(p) removes the first occurrence of p: its index
RemoveIndex(path, p) == FirstIndex(p, path)

\* __enter__, line 251: the resolver runs before the first insertion
EnterBegin(i) ==
    /\ scope[i].st = "new"
    /\ LET r == get_plugin_site_packages(here, deps)
       IN  IF r[1] = "raise"
           THEN scope' = [scope EXCEPT ![i].st = "raised", ![i].exc = "Exception"]
           ELSE scope' = [scope EXCEPT ![i].st = "entering", ![i].todo = Reversed(r[2])]
    /\ UNCHANGED <<deps, plugin, sys_path, owner, path0, run, inv, con, pure>>

\* __enter__, lines 252-256: one iteration of the loop, or its end
EnterStep(i) ==
    /\ scope[i].st = "entering"
    /\ IF scope[i].todo = <<>>
       THEN /\ scope' = [scope EXCEPT ![i].st = "body", ![i].k = 1]
            /\ UNCHANGED <<sys_path, owner>>
       ELSE LET p == Head(scope[i].todo)
            IN  IF InList(p, sys_path)
                THEN /\ scope' = [scope EXCEPT ![i].todo = Tail(@)]
                     /\ UNCHANGED <<sys_path, owner>>
                ELSE /\ sys_path' = InsertFront(sys_path, p)
                     /\ owner' = <<i>> \o owner
                     /\ scope' = [scope EXCEPT ![i].todo = Tail(@),
                                               ![i].removed = Append(@, p)]
    /\ UNCHANGED <<deps, plugin, path0, run, inv, con, pure>>

\* the with-block leaves through __exit__, carrying the exception e ("none" on success)
Leave(s, e) == [s EXCEPT !.st = "exiting", !.k = 1, !.exc = e]

\* lines 282-284: the module is created and executed; plugin code may raise
BodyExec(i) ==
    /\ scope[i].st = "body" /\ scope[i].k = 1
    /\ \E ok \in BOOLEAN :
         scope' = [scope EXCEPT ![i] = IF ok THEN [@ EXCEPT !.k = 2] ELSE Leave(@, "Exception")]
    /\ UNCHANGED <<deps, plugin, sys_path, owner, path0, run, inv, con, pure>>

\* lines 285-286: the class is looked up by name
BodyLookup(i) ==
    /\ scope[i].st = "body" /\ scope[i].k = 2
    /\ \E found \in BOOLEAN :
         scope' = [scope EXCEPT ![i] = IF found THEN [@ EXCEPT !.k = 3] ELSE Leave(@, "Exception")]
    /\ UNCHANGED <<deps, plugin, sys_path, owner, path0, run, inv, con, pure>>

CtorKinds == {"named", "positional", "type_error_in_body", "raises"}

\* lines 287-293: cls(instance=…, secrets=…), and cls(inst, secrets) after a TypeError
BodyConstruct(i) ==
    /\ scope[i].st = "body" /\ scope[i].k = 3
    /\ \E c \in CtorKinds :
         scope' = [scope EXCEPT ![i] =
             CASE c = "named" -> Leave(@, "none")
               [] c = "positional" -> Leave(@, "none")
               [] c = "type_error_in_body" -> Leave(@, "Exception")
               [] c = "raises" -> Leave(@, "Exception")]
    /\ UNCHANGED <<deps, plugin, sys_path, owner, path0, run, inv, con, pure>>

\* __exit__, lines 260-265: one iteration over self.removed, or the end of the loop
ExitStep(i) ==
    /\ scope[i].st = "exiting"
    /\ IF scope[i].k > Len(scope[i].removed)
       THEN /\ scope' = [scope EXCEPT ![i].st =
                            IF scope[i].exc = "KeyboardInterrupt" THEN "interrupted"
                            ELSE IF scope[i].exc = "none" THEN "returned" ELSE "raised"]
            /\ UNCHANGED <<sys_path, owner>>
       ELSE LET p == scope[i].removed[scope[i].k]
            IN  /\ scope' = [scope EXCEPT ![i].k = @ + 1]
                /\ IF InList(p, sys_path)
                   THEN /\ sys_path' = RemoveAt(sys_path, RemoveIndex(sys_path, p))
                        /\ owner' = RemoveAt(owner, RemoveIndex(sys_path, p))
                   ELSE UNCHANGED <<sys_path, owner>>
    /\ UNCHANGED <<deps, plugin, path0, run, inv, con, pure>>

\* a process interruption (KeyboardInterrupt) arrives while scope i is running:
\* inside __enter__ or __exit__ it propagates at once (it is no Exception, line
\* 264 does not catch it, and __exit__ is not called for a failed __enter__);
\* inside the with-block it leaves through __exit__
Interrupt(i) ==
    /\ scope[i].st \in {"entering", "body", "exiting"}
    /\ scope' = [scope EXCEPT ![i] =
           IF @.st = "body" THEN Leave(@, "KeyboardInterrupt")
           ELSE [@ EXCEPT !.st = "interrupted", !.exc = "KeyboardInterrupt"]]
    /\ UNCHANGED <<deps, plugin, sys_path, owner, path0, run, inv, con, pure>>

\* sys.path entries at process start
Entries == {<<"usr", "lib">>, here \o <<"vendor">>}

SeqsUpTo(S, n) == UNION {[1..m -> S] : m \in 0..n}

NoDeps == [venv |-> "absent", lib |-> "absent", libKids |-> <<>>, lib64 |-> "absent",
           lib64Kids |-> <<>>, winSP |-> FALSE, uvendor |-> "absent", vendor |-> "absent"]

PyKid == [name |-> "python3.11", isdir |-> TRUE, sp |-> TRUE]

\* plugin directories: bare, two vendor directories, a virtual environment beside
\* a vendor directory, and a .venv whose lib entry is a plain file
ScopeDeps ==
    { NoDeps,
      [NoDeps EXCEPT !.uvendor = "dir", !.vendor = "dir"],
      [NoDeps EXCEPT !.venv = "dir", !.lib = "dir", !.libKids = <<PyKid>>, !.vendor = "dir"],
      [NoDeps EXCEPT !.venv = "dir", !.lib = "file"] }

InitScope ==
    /\ deps \in ScopeDeps
    /\ plugin = NoPlugin
    /\ sys_path \in SeqsUpTo(Entries, MaxSysPath)
    /\ owner = [k \in 1..Len(sys_path) |-> 0]
    /\ path0 = sys_path
    /\ scope = [i \in Scopes |-> NewScope]
    /\ run = NoRun
    /\ inv = NoInv
    /\ con = NoCon
    /\ pure = NoPure

NextScope ==
    \E i \in Scopes :
        \/ EnterBegin(i)
        \/ EnterStep(i)
        \/ BodyExec(i)
        \/ BodyLookup(i)
        \/ BodyConstruct(i)
        \/ ExitStep(i)
        \/ Interrupt(i)

SpecScope == InitScope /\ [][NextScope]_vars

----------------------------------------------------------------------------
(* main(), interactive_loop() up to the driver load, load_manifest(),      *)
(* load_driver()                                                           *)

\* an entrypoint string is the sequence of its pieces; ":" is the separator
DefaultEntry == <<"driver", ":", "Driver">>

EntryStrings ==
    { DefaultEntry, <<"other", ":", "Driver">>, <<"driver", "Driver">>,
      <<"driver", ":", "Driver", ":", "x">>, <<>> }

\* the value of manifest["driver"]["entrypoint"]: absent, a string, or a number
EntryValues == {NoEntry, [kind |-> "number", text |-> <<>>]} \cup {Str(t) : t \in EntryStrings}

ModuleNames == {<<"driver">>, <<"other">>}

\* the names bound at module level in loader.py
ModuleGlobals ==
    { "json", "os", "sys", "time", "importlib", "inspect", "dataclass", "field", "Path",
      "Any", "Dict", "List", "Optional", "Set", "PLUGIN_MANIFEST_SCHEMA",
      "_load_yaml_or_json", "_save_yaml_or_json", "validate_plugin_manifest",
      "validate_capability_conformance", "prompt_secret", "IntegrationInstance", "Target",
      "_candidate_site_packages", "get_plugin_site_packages", "PluginImportPath",
      "load_manifest", "load_driver", "list_caps", "cap_method", "press_enter",
      "choose_idx", "interactive_loop", "main" }

\* entry.split(":", 1)
Split1(s) ==
    IF InList(":", s)
    THEN LET c == FirstIndex(":", s)
         IN  <<SubSeq(s, 1, c - 1), SubSeq(s, c + 1, Len(s))>>
    ELSE <<s>>

\* _load_yaml_or_json(mf), lines 96-105, for an existing plugin.yaml: the kind
\* of the value it returns, or the error it raises. A document that PyYAML
\* loads as a falsy value (an empty file, 0, false) becomes {} by the `or` of
\* line 102; without PyYAML the text goes to json.loads
load_yaml_or_json(pl) ==
    CASE pl.manifest = "unparsable" -> "JSONDecodeError"
      [] pl.manifest = "notdict" -> "notdict"
      [] pl.manifest = "falsy" -> IF pl.yaml THEN "dict" ELSE "notdict"
      [] OTHER -> "dict"

\* load_manifest(here): "ok" or the error it raises
load_manifest(pl) ==
    IF pl.manifest = "missing" THEN "RuntimeError: plugin.yaml not found"
    ELSE LET m == load_yaml_or_json(pl)
         IN  IF m = "dict" THEN "ok"
             ELSE IF m = "notdict" THEN "RuntimeError: plugin.yaml invalid"
             ELSE m

\* line 277: (m.get("driver") or {}).get("entrypoint") or "driver:Driver"
EntryOf(pl) ==
    IF pl.driver = "absent" THEN Str(DefaultEntry)
    ELSE IF pl.entrypoint.kind = "absent" \/ pl.entrypoint = Str(<<>>) THEN Str(DefaultEntry)
    ELSE pl.entrypoint

RECURSIVE EnterAll(_, _)
EnterAll(path, todo) ==
    IF todo = <<>> THEN path
    ELSE IF InList(Head(todo), path) THEN EnterAll(path, Tail(todo))
         ELSE EnterAll(<<Head(todo)>> \o path, Tail(todo))

\* mutant of ScopeAt281: the paths are inserted and the error leaves them behind
ScopeAt281_EnteredNoExit(path, d) ==
    LET r == get_plugin_site_packages(here, d)
    IN  IF r[1] = "ok" THEN EnterAll(path, Reversed(r[2])) ELSE path

\* line 281: the effect on sys.path of evaluating the context expression
\* PluginVenvPath(here); the name is bound nowhere in the module, NameError is
\* raised before any __enter__ runs
ScopeAt281(path, d) == path

Raise(r, e) == [r EXCEPT !.exc = e,
                         !.pc = IF r.ld = "running" THEN "loop_except" ELSE "main_except",
                         !.ld = IF r.ld = "running" THEN "raised" ELSE r.ld]

\* interactive_loop, line 334
LoopLoadManifest ==
    /\ run.pc = "loop_manifest"
    /\ LET r == load_manifest(plugin)
           c == [run EXCEPT !.called = Append(@, "load_manifest")]
       IN  run' = IF r = "ok" THEN [c EXCEPT !.pc = "loop_prompts"] ELSE Raise(c, r)
    /\ UNCHANGED <<deps, plugin, sys_path, owner, path0, scope, inv, con, pure>>

\* interactive_loop, lines 335-362: the connection schema is read, fields prompted
LoopPrompts ==
    /\ run.pc = "loop_prompts"
    /\ run' = IF plugin.schema = "scalar" THEN Raise(run, "AttributeError")
              ELSE [run EXCEPT !.pc = "ld_manifest", !.ld = "running", !.before = sys_path,
                               !.called = Append(@, "load_driver")]
    /\ UNCHANGED <<deps, plugin, sys_path, owner, path0, scope, inv, con, pure>>

\* load_driver, line 276
LoadDriverManifest ==
    /\ run.pc = "ld_manifest"
    /\ LET r == load_manifest(plugin)
           c == [run EXCEPT !.called = Append(@, "load_manifest")]
       IN  run' = IF r = "ok" THEN [c EXCEPT !.pc = "ld_entry"] ELSE Raise(c, r)
    /\ UNCHANGED <<deps, plugin, sys_path, owner, path0, scope, inv, con, pure>>

\* load_driver, lines 277-278
LoadDriverEntry ==
    /\ run.pc = "ld_entry"
    /\ run' = IF plugin.driver = "scalar" THEN Raise(run, "AttributeError")
              ELSE IF EntryOf(plugin).kind = "number" THEN Raise(run, "AttributeError")
              ELSE LET parts == Split1(EntryOf(plugin).text)
                   IN  IF Len(parts) # 2 THEN Raise(run, "ValueError")
                       ELSE [run EXCEPT !.pc = "ld_locate", !.mod_name = parts[1],
                                        !.cls_name = parts[2]]
    /\ UNCHANGED <<deps, plugin, sys_path, owner, path0, scope, inv, con, pure>>

\* load_driver, lines 279-280
LoadDriverLocate ==
    /\ run.pc = "ld_locate"
    /\ run' = IF run.mod_name \in plugin.files
              THEN [run EXCEPT !.pc = "ld_scope", !.located = TRUE]
              ELSE Raise(run, "RuntimeError: Driver file missing")
    /\ UNCHANGED <<deps, plugin, sys_path, owner, path0, scope, inv, con, pure>>

\* load_driver, line 281
LoadDriverScope ==
    /\ run.pc = "ld_scope"
    /\ "PluginVenvPath" \notin ModuleGlobals
    /\ sys_path' = ScopeAt281(sys_path, deps)
    /\ owner' = [k \in 1..Len(sys_path') |-> 0]
    /\ run' = Raise(run, "NameError: PluginVenvPath")
    /\ UNCHANGED <<deps, plugin, path0, scope, inv, con, pure>>

\* interactive_loop, lines 367-369: except Exception, print, return; main returns
LoopExcept ==
    /\ run.pc = "loop_except"
    /\ run' = [run EXCEPT !.pc = "exit0", !.report = <<"[load]", run.exc>>, !.exc = "none"]
    /\ UNCHANGED <<deps, plugin, sys_path, owner, path0, scope, inv, con, pure>>

\* main, lines 544-547: only KeyboardInterrupt is caught
MainExcept ==
    /\ run.pc = "main_except"
    /\ run' = IF run.exc = "KeyboardInterrupt"
              THEN [run EXCEPT !.pc = "exit0", !.report = <<"Bye.">>, !.exc = "none"]
              ELSE [run EXCEPT !.pc = "crashed"]
    /\ UNCHANGED <<deps, plugin, sys_path, owner, path0, scope, inv, con, pure>>

RunningPcs == {"loop_manifest", "loop_prompts", "ld_manifest", "ld_entry", "ld_locate", "ld_scope"}

\* Ctrl-C while the loop or load_driver runs
RunInterrupt ==
    /\ run.pc \in RunningPcs
    /\ run' = [run EXCEPT !.exc = "KeyboardInterrupt", !.pc = "main_except",
                          !.ld = IF @ = "running" THEN "interrupted" ELSE @]
    /\ UNCHANGED <<deps, plugin, sys_path, owner, path0, scope, inv, con, pure>>

Plugins ==
    { pl \in [manifest : {"missing", "unparsable", "notdict", "falsy", "dict"},
              yaml : BOOLEAN,
              schema : {"absent", "dict", "scalar"},
              driver : {"absent", "dict", "scalar"},
              entrypoint : EntryValues,
              files : SUBSET ModuleNames,
              module : {"good", "noclass"},
              id : {"absent", "acme.ups"}] :
        /\ (pl.manifest # "falsy" => pl.yaml)
        /\ (pl.manifest # "dict" =>
                pl.schema = "absent" /\ pl.driver = "absent" /\ pl.id = "absent")
        /\ (pl.driver # "dict" => pl.entrypoint = NoEntry)
        /\ (pl.module = "noclass" => pl.files # {}) }

\* located: the driver file was found (line 280); executed: the driver module was
\* executed (line 284), which needs the with statement of line 281 to be entered;
\* called: the loader's functions called so far, in order
StartRun == [pc |-> "loop_manifest", exc |-> "none", ld |-> "none", before |-> <<>>,
             mod_name |-> <<>>, cls_name |-> <<>>, located |-> FALSE, executed |-> FALSE,
             called |-> <<>>, report |-> <<>>]

Init ==
    /\ deps \in ScopeDeps
    /\ plugin \in Plugins
    /\ sys_path \in SeqsUpTo(Entries, MaxSysPath)
    /\ owner = [k \in 1..Len(sys_path) |-> 0]
    /\ path0 = sys_path
    /\ scope = [i \in Scopes |-> NewScope]
    /\ run = StartRun
    /\ inv = NoInv
    /\ con = NoCon
    /\ pure = NoPure

Next ==
    \/ LoopLoadManifest
    \/ LoopPrompts
    \/ LoadDriverManifest
    \/ LoadDriverEntry
    \/ LoadDriverLocate
    \/ LoadDriverScope
    \/ LoopExcept
    \/ MainExcept
    \/ RunInterrupt

Spec == Init /\ [][Next]_vars

----------------------------------------------------------------------------
(* interactive_loop.do_action, lines 488-510: the driver method is looked   *)
(* up and called under four calling conventions                             *)

\* a parameter of the driver method (self left out): positional-only ("po"),
\* positional-or-keyword ("pk") or keyword-only ("ko"), with or without default
Param(n, k, d) == [name |-> n, kind |-> k, dflt |-> d]

Sig(ps, va, vk) == [callable |-> TRUE, params |-> ps, varargs |-> va, varkw |-> vk]

Four(k) == <<Param("verb", k, FALSE), Param("target", k, FALSE),
             Param("options", k, FALSE), Param("dry_run", k, FALSE)>>

Three(k) == <<Param("verb", k, FALSE), Param("target", k, FALSE), Param("dry_run", k, FALSE)>>

Signatures ==
    { Sig(Four("pk"), FALSE, FALSE),               \* def f(self, verb, target, options, dry_run)
      Sig(Four("po"), FALSE, FALSE),               \* def f(self, verb, target, options, dry_run, /)
      Sig(Three("pk"), FALSE, FALSE),              \* def f(self, verb, target, dry_run)
      Sig(Three("po"), FALSE, FALSE),              \* def f(self, verb, target, dry_run, /)
      Sig(Three("ko"), FALSE, FALSE),              \* def f(self, *, verb, target, dry_run)
      Sig(<<Param("verb", "pk", FALSE), Param("target", "pk", FALSE),
            Param("options", "pk", TRUE), Param("dry_run", "pk", TRUE)>>, FALSE, FALSE),
      Sig(<<Param("action", "pk", FALSE), Param("tgt", "pk", FALSE),
            Param("opts", "pk", FALSE), Param("dry", "pk", FALSE)>>, FALSE, FALSE),
      Sig(Four("pk") \o <<Param("extra", "pk", FALSE)>>, FALSE, FALSE),
      Sig(<<>>, FALSE, FALSE),                     \* def f(self)
      Sig(<<>>, TRUE, TRUE),                       \* def f(self, *args, **kwargs)
      Sig(<<>>, TRUE, FALSE),                      \* def f(self, *args)
      Sig(<<Param("verb", "pk", FALSE)>>, FALSE, TRUE),   \* def f(self, verb, **kwargs)
      [callable |-> FALSE, params |-> <<>>, varargs |-> FALSE, varkw |-> FALSE] }

\* lines 495-500: the four calls, as positional count and keyword names
Attempts ==
    << [npos |-> 0, kw |-> {"verb", "target", "options", "dry_run"}],
       [npos |-> 4, kw |-> {}],
       [npos |-> 0, kw |-> {"verb", "target", "dry_run"}],
       [npos |-> 3, kw |-> {}] >>

\* Python's binding of a call to a signature: TRUE iff no TypeError is raised
\* before the body runs
Binds(sig, call) ==
    LET ps == sig.params
        posIdx == {k \in 1..Len(ps) : ps[k].kind \in {"po", "pk"}}
        \* the parameters filled by the positional arguments
        byPos == {k \in posIdx : Cardinality({j \in posIdx : j <= k}) <= call.npos}
        byKw == {k \in 1..Len(ps) : ps[k].kind \in {"pk", "ko"} /\ ps[k].name \in call.kw}
        strayKw == {n \in call.kw : ~\E k \in 1..Len(ps) :
                                        ps[k].kind \in {"pk", "ko"} /\ ps[k].name = n}
    IN  /\ sig.callable
        /\ (call.npos > Cardinality(posIdx) => sig.varargs)
        /\ byPos \cap byKw = {}
        /\ (strayKw # {} => sig.varkw)
        /\ \A k \in 1..Len(ps) : ps[k].dflt \/ k \in byPos \/ k \in byKw

\* what the driver method returns: None, or a mapping (a set of key/value
\* pairs), whose keys json.dumps accepts or not
Value(null, map, keys) == [null |-> null, map |-> map, jsonkeys |-> keys]

None == Value(TRUE, {}, TRUE)

SuccessTrue == Value(FALSE, {<<"success", "True">>}, TRUE)

Returns ==
    { None, Value(FALSE, {}, TRUE), SuccessTrue,
      Value(FALSE, {<<"status", "ok">>, <<"job", "7">>}, TRUE),
      Value(FALSE, {<<"(1, 2)", "x">>}, FALSE) }

\* what the body of the driver method does once its arguments are bound
Bodies == {[do |-> "return", value |-> v] : v \in Returns}
          \cup {[do |-> "raise", value |-> None, exc |-> e] : e \in {"TypeError", "DriverError"}}

\* bool(v)
Truthy(v) == ~v.null /\ v.map # {}

\* line 504: call() or {"success": True}
OrSuccess(v) == IF Truthy(v) THEN v ELSE SuccessTrue

NoErr == <<>>

\* mutant of NextErr: the first binding error is kept
NextErr_KeepFirst(err, te) == IF err = NoErr THEN te ELSE err

\* line 507: err = te
NextErr(err, te) == te

StartInv(has, sig, body) ==
    [pc |-> "lookup", has |-> has, sig |-> sig, body |-> body, n |-> 1, err |-> NoErr,
     report |-> <<>>, runs |-> 0, tried |-> <<>>, bound |-> {}]

\* lines 488-491: hasattr(driver, method_name)
InvokeLookup ==
    /\ inv.pc = "lookup"
    /\ inv' = IF inv.has THEN [inv EXCEPT !.pc = "loop"]
              ELSE [inv EXCEPT !.pc = "done", !.report = <<"missing">>]
    /\ UNCHANGED <<deps, plugin, sys_path, owner, path0, scope, run, con, pure>>

\* lines 502-509: one iteration of `for call in attempts`
InvokeAttempt ==
    /\ inv.pc = "loop" /\ inv.n <= Len(Attempts)
    /\ LET n == inv.n
           t == [inv EXCEPT !.tried = Append(@, n)]
           again(te) == [t EXCEPT !.n = n + 1, !.err = NextErr(inv.err, te)]
       IN  IF ~Binds(inv.sig, Attempts[n])
           THEN inv' = again(<<"TypeError", "binding", n>>)
           ELSE LET b == [t EXCEPT !.bound = @ \cup {n}, !.runs = @ + 1]
                IN  IF inv.body.do = "raise"
                    THEN IF inv.body.exc = "TypeError"
                         THEN inv' = [again(<<"TypeError", "body", n>>)
                                          EXCEPT !.bound = b.bound, !.runs = b.runs]
                         ELSE inv' = [b EXCEPT !.pc = "done",
                                               !.report = <<"action_error", inv.body.exc>>]
                    ELSE IF ~OrSuccess(inv.body.value).jsonkeys
                         THEN inv' = [again(<<"TypeError", "json.dumps", n>>)
                                          EXCEPT !.bound = b.bound, !.runs = b.runs]
                         ELSE inv' = [b EXCEPT !.pc = "done",
                                               !.report = <<"result", OrSuccess(inv.body.value)>>]
    /\ UNCHANGED <<deps, plugin, sys_path, owner, path0, scope, run, con, pure>>

\* line 510: the loop ran out of calls
InvokeExhausted ==
    /\ inv.pc = "loop" /\ inv.n > Len(Attempts)
    /\ inv' = [inv EXCEPT !.pc = "done", !.report = <<"unsupported", inv.err>>]
    /\ UNCHANGED <<deps, plugin, sys_path, owner, path0, scope, run, con, pure>>

InitInvoke ==
    /\ deps = NoDeps
    /\ plugin = NoPlugin
    /\ sys_path = <<>>
    /\ owner = <<>>
    /\ path0 = <<>>
    /\ scope = [i \in Scopes |-> NewScope]
    /\ run = NoRun
    /\ inv \in {StartInv(h, sg, b) : h \in BOOLEAN, sg \in Signatures, b \in Bodies}
    /\ con = NoCon
    /\ pure = NoPure

NextInvoke ==
    \/ InvokeLookup
    \/ InvokeAttempt
    \/ InvokeExhausted

SpecInvoke == InitInvoke /\ [][NextInvoke]_vars

----------------------------------------------------------------------------
(* load_driver, lines 287-293: the instance context is built and the driver *)
(* class is called, by name and then positionally                           *)

CtorSignatures ==
    { Sig(<<Param("instance", "pk", FALSE), Param("secrets", "pk", FALSE)>>, FALSE, FALSE),
      Sig(<<Param("instance", "po", FALSE), Param("secrets", "po", FALSE)>>, FALSE, FALSE),
      Sig(<<Param("instance", "ko", FALSE), Param("secrets", "ko", FALSE)>>, FALSE, FALSE),
      Sig(<<Param("inst", "pk", FALSE), Param("creds", "pk", FALSE)>>, FALSE, FALSE),
      Sig(<<Param("instance", "pk", FALSE), Param("secrets", "pk", TRUE)>>, FALSE, FALSE),
      Sig(<<Param("instance", "pk", FALSE)>>, FALSE, FALSE),
      Sig(<<>>, TRUE, TRUE) }

\* what __init__ does once its arguments are bound
CtorBodies == {"ok", "TypeError", "DriverError"}

\* line 291: cls(instance=inst, secrets=secrets); line 293: cls(inst, secrets)
NamedCall == [npos |-> 0, kw |-> {"instance", "secrets"}]
PositionalCall == [npos |-> 2, kw |-> {}]

\* lines 287-289: name defaults to "Test Instance", type_id to "unknown.type"
IntegrationInstance(cfg_name, manifest_id) ==
    [id |-> "inst-TEST",
     name |-> IF cfg_name = "absent" THEN "Test Instance" ELSE cfg_name,
     type_id |-> IF manifest_id = "absent" THEN "unknown.type" ELSE manifest_id]

StartCon(cls, body, cfg_name, manifest_id) ==
    [pc |-> "instance", cls |-> cls, body |-> body, cfg_name |-> cfg_name,
     manifest_id |-> manifest_id, inst |-> IntegrationInstance("absent", "absent"),
     runs |-> 0, calls |-> <<>>, out |-> <<>>]

\* lines 287-289
ConstructInstance ==
    /\ con.pc = "instance"
    /\ con' = [con EXCEPT !.pc = "named",
                          !.inst = IntegrationInstance(con.cfg_name, con.manifest_id)]
    /\ UNCHANGED <<deps, plugin, sys_path, owner, path0, scope, run, inv, pure>>

\* lines 290-292: the named call; except TypeError leads to the positional call
ConstructNamed ==
    /\ con.pc = "named"
    /\ LET c == [con EXCEPT !.calls = Append(@, "named")]
       IN  IF ~Binds(con.cls, NamedCall)
           THEN con' = [c EXCEPT !.pc = "positional"]
           ELSE LET r == [c EXCEPT !.runs = @ + 1]
                IN  con' = CASE con.body = "ok" ->
                                  [r EXCEPT !.pc = "done", !.out = <<"driver", "named">>]
                            [] con.body = "TypeError" -> [r EXCEPT !.pc = "positional"]
                            [] OTHER ->
                                  [r EXCEPT !.pc = "done", !.out = <<"raise", con.body, "named">>]
    /\ UNCHANGED <<deps, plugin, sys_path, owner, path0, scope, run, inv, pure>>

\* line 293: the positional call; whatever it raises leaves load_driver
ConstructPositional ==
    /\ con.pc = "positional"
    /\ LET c == [con EXCEPT !.calls = Append(@, "positional"), !.pc = "done"]
       IN  IF ~Binds(con.cls, PositionalCall)
           THEN con' = [c EXCEPT !.out = <<"raise", "TypeError", "binding">>]
           ELSE LET r == [c EXCEPT !.runs = @ + 1]
                IN  con' = IF con.body = "ok" THEN [r EXCEPT !.out = <<"driver", "positional">>]
                           ELSE [r EXCEPT !.out = <<"raise", con.body, "positional">>]
    /\ UNCHANGED <<deps, plugin, sys_path, owner, path0, scope, run, inv, pure>>

InitConstruct ==
    /\ deps = NoDeps
    /\ plugin = NoPlugin
    /\ sys_path = <<>>
    /\ owner = <<>>
    /\ path0 = <<>>
    /\ scope = [i \in Scopes |-> NewScope]
    /\ run = NoRun
    /\ inv = NoInv
    /\ con \in {StartCon(c, b, n, m) : c \in CtorSignatures, b \in CtorBodies,
                                       n \in {"absent", "ups1"}, m \in {"absent", "acme.ups"}}
    /\ pure = NoPure

NextConstruct ==
    \/ ConstructInstance
    \/ ConstructNamed
    \/ ConstructPositional

SpecConstruct == InitConstruct /\ [][NextConstruct]_vars

----------------------------------------------------------------------------
(* validate_capability_conformance, lines 148-162, and cap_method           *)

\* a capability id is the sequence of its pieces; "." separates the segments
CapIds ==
    { <<"power", ".", "cycle">>, <<"power", "_", "cycle">>, <<"a", ".", "b", ".", "c">>,
      <<"probe">> }

\* a declared capability: a mapping with or without the key "id"
Capabilities == {[has_id |-> TRUE, id |-> c] : c \in CapIds} \cup {[has_id |-> FALSE, id |-> <<>>]}

MethodNames ==
    { <<"power", "_", "cycle">>, <<"a", "_", "b", "_", "c">>, <<"a", "_", "b", ".", "c">>,
      <<"probe">> }

\* mutant of ReplaceDots: only the first "." is replaced, as replace(".", "_", 1) does
ReplaceDots_FirstOnly(s) ==
    IF InList(".", s)
    THEN [k \in 1..Len(s) |-> IF k = FirstIndex(".", s) THEN "_" ELSE s[k]]
    ELSE s

\* cap_id.replace(".", "_"), lines 154 and 307
RECURSIVE ReplaceDots(_)
ReplaceDots(s) ==
    IF s = <<>> THEN <<>>
    ELSE <<IF Head(s) = "." THEN "_" ELSE Head(s)>> \o ReplaceDots(Tail(s))

\* line 153: cap.get("id", "")
CapId(cap) == IF cap.has_id THEN cap.id ELSE <<>>

\* line 157: f"Driver missing method '{method_name}' for capability '{cap_id}'"
MissingMethod(method_name, cap_id) ==
    [text |-> "Driver missing method", method |-> method_name, capability |-> cap_id]

\* lines 150-157: the loop over the capabilities
RECURSIVE ConformanceErrors(_, _, _)
ConformanceErrors(caps, driver_methods, errors) ==
    IF caps = <<>> THEN errors
    ELSE LET cap_id == CapId(Head(caps))
             method_name == ReplaceDots(cap_id)
         IN  ConformanceErrors(Tail(caps), driver_methods,
                 IF method_name \notin driver_methods
                 THEN Append(errors, MissingMethod(method_name, cap_id))
                 ELSE errors)

validate_capability_conformance(capabilities, driver_methods) ==
    LET errors == ConformanceErrors(capabilities, driver_methods, <<>>)
    IN  [conformant |-> Len(errors) = 0, errors |-> errors]

Conform ==
    /\ pure.pc = "conform"
    /\ pure' = [pure EXCEPT !.pc = "conformed",
                   !.out = validate_capability_conformance(pure.capabilities, pure.driver_methods)]
    /\ UNCHANGED <<deps, plugin, sys_path, owner, path0, scope, run, inv, con>>

\* the check is read by a caller
ConformRead ==
    /\ pure.pc = "conformed"
    /\ pure' = [pure EXCEPT !.pc = "read", !.seen = pure.out.conformant]
    /\ UNCHANGED <<deps, plugin, sys_path, owner, path0, scope, run, inv, con>>

InitConform ==
    /\ deps = NoDeps
    /\ plugin = NoPlugin
    /\ sys_path = <<>>
    /\ owner = <<>>
    /\ path0 = <<>>
    /\ scope = [i \in Scopes |-> NewScope]
    /\ run = NoRun
    /\ inv = NoInv
    /\ con = NoCon
    /\ \E caps \in SeqsUpTo(Capabilities, MaxCaps), ms \in SUBSET MethodNames :
         pure = [pc |-> "conform", capabilities |-> caps, driver_methods |-> ms,
                 capabilities0 |-> caps, driver_methods0 |-> ms,
                 out |-> [conformant |-> TRUE, errors |-> <<>>], seen |-> FALSE]

NextConform ==
    \/ Conform
    \/ ConformRead

SpecConform == InitConform /\ [][NextConform]_vars

----------------------------------------------------------------------------
(* validate_plugin_manifest, lines 118-145, over PLUGIN_MANIFEST_SCHEMA     *)

\* line 24: "required", in the order of the list
Required ==
    <<"id", "name", "version", "min_core_version", "category", "schema", "capabilities",
      "driver">>

\* lines 26-92: "properties", in the order of the mapping
Properties ==
    <<"id", "name", "version", "min_core_version", "category", "driver", "schema",
      "capabilities">>

FieldNames == {Required[k] : k \in 1..Len(Required)}

\* the value of a top-level field, as far as its subschema tells values apart:
\* absent, conforming, or violating its own keyword (type, pattern, enum, ...);
\* a driver may also be an object without entrypoint or with one that does not
\* match the pattern of line 55
FieldValues(f) ==
    IF f = "driver" THEN {"absent", "ok", "bad", "noentry", "badentry"}
    ELSE {"absent", "ok", "bad"}

\* a manifest: a mapping of the fields, possibly with a key the schema does not
\* know, or a document that is not a mapping
Manifests ==
    {[kind |-> "object", fields |-> fs, extra |-> x] :
        fs \in {g \in [FieldNames -> {"absent", "ok", "bad", "noentry", "badentry"}] :
                   \A f \in FieldNames : g[f] \in FieldValues(f)},
        x \in BOOLEAN}
    \cup {[kind |-> "list", fields |-> [f \in FieldNames |-> "absent"], extra |-> FALSE]}

\* line 129: ".".join(str(p) for p in error.absolute_path)
RECURSIVE DotJoin(_)
DotJoin(parts) ==
    IF parts = <<>> THEN <<>>
    ELSE IF Len(parts) = 1 THEN parts
    ELSE <<Head(parts), ".">> \o DotJoin(Tail(parts))

\* lines 128-132: one formatted error
FormattedError(absolute_path, text, arg, instance) ==
    [path |-> DotJoin(absolute_path), message |-> [text |-> text, arg |-> arg],
     value |-> instance]

\* mutant of RequiredError: the path of the error is the missing field
RequiredError_PathNamesField(field) ==
    FormattedError(<<field>>, "is a required property", field, "manifest")

\* the error of the keyword "required" for a missing top-level field: the
\* instance is the manifest itself, so the absolute path is empty
RequiredError(field) ==
    FormattedError(<<>>, "is a required property", field, "manifest")

\* the errors of the subschema of one present field
PropertyErrors(f, v) ==
    IF v \in {"absent", "ok"} THEN <<>>
    ELSE IF v = "noentry"
         THEN <<FormattedError(<<f>>, "is a required property", "entrypoint", v)>>
    ELSE IF v = "badentry"
         THEN <<FormattedError(<<f, "entrypoint">>, "does not match", "pattern", v)>>
    ELSE <<FormattedError(<<f>>, "violates", f, v)>>

RECURSIVE AllPropertyErrors(_, _)
AllPropertyErrors(fs, m) ==
    IF fs = <<>> THEN <<>>
    ELSE PropertyErrors(Head(fs), m.fields[Head(fs)]) \o AllPropertyErrors(Tail(fs), m)

\* line 123: validator.iter_errors(manifest_data); the keywords are applied in
\* the order of the schema: type, required, additionalProperties, properties
iter_errors(m) ==
    IF m.kind # "object"
    THEN <<FormattedError(<<>>, "is not of type", "object", "manifest")>>
    ELSE LET missing == SelectSeq(Required, LAMBDA f : m.fields[f] = "absent")
         IN  [k \in 1..Len(missing) |-> RequiredError(missing[k])]
             \o (IF m.extra
                 THEN <<FormattedError(<<>>, "Additional properties are not allowed", "extra",
                                       "manifest")>>
                 ELSE <<>>)
             \o AllPropertyErrors(Properties, m)

\* mutant of ValidationUnavailable: the manifest passes when it cannot be checked
ValidationUnavailable_Pass == [valid |-> TRUE, errors |-> <<>>]

\* lines 137-145: except ImportError
ValidationUnavailable ==
    [valid |-> FALSE,
     errors |-> <<[path |-> <<>>,
                   message |-> [text |-> "Schema validation unavailable", arg |-> "jsonschema"],
                   value |-> "None"]>>]

validate_plugin_manifest(manifest_data, jsonschema) ==
    IF jsonschema
    THEN LET errors == iter_errors(manifest_data)
         IN  IF errors # <<>> THEN [valid |-> FALSE, errors |-> errors]
             ELSE [valid |-> TRUE, errors |-> <<>>]
    ELSE ValidationUnavailable

Validate ==
    /\ pure.pc = "validate"
    /\ pure' = [pure EXCEPT !.pc = "validated",
                   !.checked = pure.jsonschema,
                   !.out = validate_plugin_manifest(pure.manifest_data, pure.jsonschema)]
    /\ UNCHANGED <<deps, plugin, sys_path, owner, path0, scope, run, inv, con>>

\* the caller reads the verdict
ValidateRead ==
    /\ pure.pc = "validated"
    /\ pure' = [pure EXCEPT !.pc = "read", !.seen = pure.out.valid]
    /\ UNCHANGED <<deps, plugin, sys_path, owner, path0, scope, run, inv, con>>

InitValidate ==
    /\ deps = NoDeps
    /\ plugin = NoPlugin
    /\ sys_path = <<>>
    /\ owner = <<>>
    /\ path0 = <<>>
    /\ scope = [i \in Scopes |-> NewScope]
    /\ run = NoRun
    /\ inv = NoInv
    /\ con = NoCon
    /\ \E m \in Manifests, js \in BOOLEAN :
         pure = [pc |-> "validate", manifest_data |-> m, jsonschema |-> js, checked |-> FALSE,
                 out |-> [valid |-> FALSE, errors |-> <<>>], seen |-> FALSE]

NextValidate ==
    \/ Validate
    \/ ValidateRead

SpecValidate == InitValidate /\ [][NextValidate]_vars

----------------------------------------------------------------------------
(* get_plugin_site_packages as a function of the plugin directory, 190-242  *)

\* the entries a lib directory is filled with: python3.11 as a file, as a
\* directory without and with site-packages; python3.12 and tmp as directories
\* with site-packages
ResolveChildren ==
    {c \in Children : /\ (~c.isdir => ~c.sp)
                      /\ (c.name # "python3.11" => (c.isdir /\ c.sp))}

\* the listings of a directory, in the order iterdir yields them: no name twice
Listings ==
    {s \in SeqsUpTo(ResolveChildren, Cardinality(ChildNames)) :
        \A j, k \in 1..Len(s) : j # k => s[j].name # s[k].name}

ResolveDeps ==
    {d \in [venv : Kinds, lib : Kinds, libKids : Listings, lib64 : Kinds,
            lib64Kids : Listings, winSP : BOOLEAN, uvendor : Kinds, vendor : Kinds] :
        /\ (d.venv # "dir" => (d.lib = "absent" /\ d.lib64 = "absent" /\ ~d.winSP))
        /\ (d.lib # "dir" => d.libKids = <<>>)
        /\ ((d.lib # "dir" \/ d.lib64 # "dir") => d.lib64Kids = <<>>)}

NoResult == <<"none", <<>>>>

Resolve ==
    /\ pure.pc = "resolve"
    /\ pure' = [pure EXCEPT !.pc = "resolved", !.first = get_plugin_site_packages(here, deps)]
    /\ UNCHANGED <<deps, plugin, sys_path, owner, path0, scope, run, inv, con>>

\* between two calls the plugin directory may be changed from outside
DirChange ==
    /\ pure.pc = "resolved"
    /\ ~pure.changed
    /\ deps' = [deps EXCEPT !.vendor = IF deps.vendor = "dir" THEN "absent" ELSE "dir"]
    /\ pure' = [pure EXCEPT !.changed = TRUE]
    /\ UNCHANGED <<plugin, sys_path, owner, path0, scope, run, inv, con>>

ResolveAgain ==
    /\ pure.pc = "resolved"
    /\ pure' = [pure EXCEPT !.pc = "again", !.second = get_plugin_site_packages(here, deps)]
    /\ UNCHANGED <<deps, plugin, sys_path, owner, path0, scope, run, inv, con>>

InitResolve ==
    /\ deps \in ResolveDeps
    /\ plugin = NoPlugin
    /\ sys_path = <<>>
    /\ owner = <<>>
    /\ path0 = <<>>
    /\ scope = [i \in Scopes |-> NewScope]
    /\ run = NoRun
    /\ inv = NoInv
    /\ con = NoCon
    /\ pure = [pc |-> "resolve", first |-> NoResult, second |-> NoResult, changed |-> FALSE]

NextResolve ==
    \/ Resolve
    \/ DirChange
    \/ ResolveAgain

SpecResolve == InitResolve /\ [][NextResolve]_vars

----------------------------------------------------------------------------
(* Claims *)

ResolvedPaths == get_plugin_site_packages(here, deps)

\* C1: once load_driver has completed, by returning or by raising at any of its
\* steps, sys.path has the entries it had immediately before the call, in the
\* same order.
C1_SearchPathUnchangedAfterLoad ==
    run.ld \in {"returned", "raised"} => sys_path = run.before

\* load_driver got as far as the with statement and raised there, in a plugin
\* directory that has two dependency paths to offer, one of them not on sys.path
C1_Witness ==
    /\ run.ld = "raised" /\ run.located
    /\ ResolvedPaths[1] = "ok" /\ Len(ResolvedPaths[2]) = 2
    /\ Len(sys_path) = 2
    /\ \E k \in 1..2 : ~InList(ResolvedPaths[2][k], sys_path)

WellFormedEntry(e) ==
    /\ e.kind = "str"
    /\ Cardinality({k \in 1..Len(e.text) : e.text[k] = ":"}) = 1
    /\ Split1(e.text)[1] # <<>> /\ Split1(e.text)[2] # <<>>

GoodPlugin(pl) ==
    /\ pl.manifest = "dict" /\ pl.schema # "scalar" /\ pl.driver # "scalar"
    /\ WellFormedEntry(EntryOf(pl))
    /\ Split1(EntryOf(pl).text)[1] \in pl.files
    /\ pl.module = "good"

\* C2: for a plugin directory with a structured manifest, a well-formed
\* entrypoint, an existing driver source file and a module defining the class
\* with an accepting constructor, load_driver does not raise: it returns the
\* (driver, manifest) pair.
C2_GoodPluginLoads ==
    (GoodPlugin(plugin) /\ run.ld \in {"returned", "raised"}) => run.ld = "returned"

AllFour == 1..Len(Attempts)

BindingOf(sg) == {n \in AllFour : Binds(sg, Attempts[n])}

\* C3: the conventions are tried in the order (a), (b), (c), (d), and a later one
\* is attempted only if every earlier one failed to bind: the loop stops at the
\* first convention that binds.
C3_StopsAtFirstBinding ==
    /\ inv.tried = [k \in 1..Len(inv.tried) |-> k]
    /\ \A k \in 1..Len(inv.tried) : \A m \in 1..(inv.tried[k] - 1) : m \notin inv.bound

\* C4: an error raised inside the driver method after its arguments were bound
\* ends the invocation at once as an action error: the body runs at most once.
C4_BodyRunsAtMostOnce ==
    inv.body.do = "raise" =>
        /\ inv.runs <= 1
        /\ (inv.pc = "done" /\ inv.runs > 0) => inv.report[1] = "action_error"

\* C5: if all four conventions fail to bind, the invocation ends with the
\* unsupported report naming the binding error of the last convention, (d), and
\* no result is reported.
C5_ExhaustionNamesLastError ==
    (inv.pc = "done" /\ inv.has /\ BindingOf(inv.sig) = {})
        => inv.report = <<"unsupported", <<"TypeError", "binding", Len(Attempts)>>>>

\* a method that no convention binds went through the four calls
C5_Witness ==
    /\ inv.pc = "done" /\ inv.has /\ BindingOf(inv.sig) = {}
    /\ inv.tried = <<1, 2, 3, 4>> /\ inv.sig.callable /\ inv.runs = 0

\* C6: when a convention binds and the driver method returns, the result is
\* {"success": true} for a null return and the returned mapping itself for every
\* other return value, the empty mapping included.
C6_ResultIsReturnValue ==
    (inv.pc = "done" /\ inv.bound # {} /\ inv.body.do = "return")
        => inv.report = <<"result", IF inv.body.value.null THEN SuccessTrue
                                     ELSE inv.body.value>>

\* C7: the driver module is located, executed and instantiated only after the
\* manifest has been passed through validate_plugin_manifest.
C7_ValidatedBeforeDriver ==
    (run.located \/ run.executed) => InList("validate_plugin_manifest", run.called)

LoadErrors ==
    { "RuntimeError: plugin.yaml not found", "RuntimeError: plugin.yaml invalid",
      "JSONDecodeError", "ValueError", "RuntimeError: Driver file missing",
      "NameError: PluginVenvPath" }

\* C8: a failure while loading the manifest or the driver never ends the
\* process with an uncaught error.
C8_LoadFailureNeverCrashes ==
    ~(run.pc = "crashed" /\ run.exc \in LoadErrors)

RECURSIVE Unowned(_, _)
Unowned(path, own) ==
    IF path = <<>> THEN <<>>
    ELSE IF Head(own) = 0 THEN <<Head(path)>> \o Unowned(Tail(path), Tail(own))
         ELSE Unowned(Tail(path), Tail(own))

\* C9: for load operations whose acquire and release steps interleave, once all
\* of them have completed (released their scope, or failed before acquiring)
\* sys.path equals its initial value, and at every intermediate point the entries
\* no load added are all there in their initial order.
C9_NoLeakNoReorder ==
    /\ (\A i \in Scopes : scope[i].st \in {"new", "returned", "raised"}) => sys_path = path0
    /\ Unowned(sys_path, owner) = path0

\* both scopes inserted an entry of their own (their __enter__ loops interleaved)
\* and both have been released, over a start list of two entries
C9_Witness ==
    /\ \A i \in Scopes : scope[i].st \in {"returned", "raised"} /\ scope[i].removed # <<>>
    /\ Len(path0) = 2

\* C10: once a process interruption has propagated out of a load operation,
\* sys.path holds no entry that the load added.
C10_InterruptLeavesNothing ==
    \A i \in Scopes : scope[i].st = "interrupted" => ~InList(i, owner)

\* C11: the named form is attempted first, and the positional form only when the
\* named attempt failed to match the parameters; any other failure raised by
\* the constructor leaves load_driver as it is and the constructor does not run
\* a second time.
C11_PositionalOnlyOnMismatch ==
    /\ (con.calls # <<>> => con.calls[1] = "named")
    /\ (InList("positional", con.calls) => ~Binds(con.cls, NamedCall))
    /\ con.runs <= 1

\* the method a capability is expected to have: its id with every "." turned into "_"
ExpectedMethod(cap) ==
    [k \in 1..Len(CapId(cap)) |-> IF CapId(cap)[k] = "." THEN "_" ELSE CapId(cap)[k]]

\* the positions of the declared capabilities whose method the driver lacks
Lacking == {k \in 1..Len(pure.capabilities) :
               ExpectedMethod(pure.capabilities[k]) \notin pure.driver_methods}

\* the j-th smallest element of a set of positions
Nth(S, j) == CHOOSE k \in S : Cardinality({m \in S : m < k}) = j - 1

\* C12: the errors list has one entry per declared capability whose expected
\* method is not among the driver's methods, in declaration order, each naming
\* that method and the capability id; conformant is true exactly when the list is
\* empty; the two inputs are left as they were.
C12_OneErrorPerMissingMethod ==
    pure.pc \in {"conformed", "read"} =>
        /\ Len(pure.out.errors) = Cardinality(Lacking)
        /\ \A j \in 1..Len(pure.out.errors) :
              LET cap == pure.capabilities[Nth(Lacking, j)]
              IN  /\ pure.out.errors[j].method = ExpectedMethod(cap)
                  /\ pure.out.errors[j].capability = CapId(cap)
        /\ pure.out.conformant = (pure.out.errors = <<>>)
        /\ pure.capabilities = pure.capabilities0
        /\ pure.driver_methods = pure.driver_methods0

\* two capabilities are declared, the driver has the method of the first only,
\* and the second, "a.b.c", is reported with the method a_b_c
C12_Witness ==
    /\ pure.pc = "conformed"
    /\ Len(pure.capabilities) = 2
    /\ pure.out.errors = <<MissingMethod(<<"a", "_", "b", "_", "c">>, <<"a", ".", "b", ".", "c">>)>>
    /\ ~pure.out.conformant

\* a manifest that violates nothing in the schema
Conforms(m) ==
    /\ m.kind = "object"
    /\ ~m.extra
    /\ \A f \in FieldNames : m.fields[f] = "ok"

\* C13: when jsonschema cannot be imported the result is valid = false with
\* exactly one error, of empty path, null value and the "validation unavailable"
\* message, whatever the manifest; valid = true is returned only when the
\* manifest was checked against the schema and violates nothing.
C13_UnavailableIsNeverValid ==
    pure.pc \in {"validated", "read"} =>
        /\ ~pure.jsonschema =>
              /\ ~pure.out.valid
              /\ Len(pure.out.errors) = 1
              /\ pure.out.errors[1].path = <<>>
              /\ pure.out.errors[1].value = "None"
              /\ pure.out.errors[1].message.text = "Schema validation unavailable"
        /\ pure.out.valid => (pure.checked /\ Conforms(pure.manifest_data))

\* a manifest that conforms to the schema is reported invalid because it could
\* not be checked
C13_Witness ==
    /\ pure.pc = "validated"
    /\ ~pure.jsonschema
    /\ Conforms(pure.manifest_data)
    /\ ~pure.out.valid

\* the required top-level fields a manifest lacks
MissingFields(m) == {f \in FieldNames : m.kind = "object" /\ m.fields[f] = "absent"}

\* C14 as stated, for the manifests that were checked: a manifest lacking a
\* required top-level field is reported invalid with at least one error whose
\* path names the missing field.
C14_PathNamesMissingField ==
    (pure.pc \in {"validated", "read"} /\ pure.checked /\ MissingFields(pure.manifest_data) # {}) =>
        /\ ~pure.out.valid
        /\ \E k \in 1..Len(pure.out.errors), f \in MissingFields(pure.manifest_data) :
              pure.out.errors[k].path = <<f>>

\* C14: a manifest lacking a required top-level field is reported invalid; when
\* the manifest was checked, every missing field is named by the message of an
\* error whose path is empty and whose value is the manifest, and no error has
\* the missing field as its path.
C14_MessageNamesMissingField ==
    (pure.pc \in {"validated", "read"} /\ MissingFields(pure.manifest_data) # {}) =>
        /\ ~pure.out.valid
        /\ pure.checked =>
              \A f \in MissingFields(pure.manifest_data) :
                  /\ \E k \in 1..Len(pure.out.errors) :
                        /\ pure.out.errors[k].path = <<>>
                        /\ pure.out.errors[k].message = [text |-> "is a required property", arg |-> f]
                        /\ pure.out.errors[k].value = "manifest"
                  /\ \A k \in 1..Len(pure.out.errors) : pure.out.errors[k].path # <<f>>

\* a checked manifest without id and without driver: both are reported
C14_Witness ==
    /\ pure.pc = "validated"
    /\ pure.checked
    /\ MissingFields(pure.manifest_data) = {"id", "driver"}
    /\ Len(pure.out.errors) >= 2
    /\ pure.out.errors[1] = RequiredError("id")

VenvPrefix == here \o <<".venv">>

UnderVenv(p) == Len(p) > Len(VenvPrefix) /\ SubSeq(p, 1, Len(VenvPrefix)) = VenvPrefix

VendorPaths == {here \o <<"_vendor">>, here \o <<"vendor">>}

\* C15: _vendor and vendor are in the result only when the plugin directory has
\* no .venv directory; when both are in the result _vendor comes first; when the
\* .venv directory exists the result holds only paths below it.
C15_VendorOnlyWithoutVenv ==
    (pure.pc = "resolved" /\ ~pure.changed /\ pure.first[1] = "ok") =>
        LET r == pure.first[2]
        IN  /\ (\E k \in 1..Len(r) : r[k] \in VendorPaths) => deps.venv # "dir"
            /\ (InList(here \o <<"_vendor">>, r) /\ InList(here \o <<"vendor">>, r)) =>
                  FirstIndex(here \o <<"_vendor">>, r) < FirstIndex(here \o <<"vendor">>, r)
            /\ deps.venv = "dir" => \A k \in 1..Len(r) : UnderVenv(r[k])

\* C16: the resolver returns a list for every shape of the plugin directory.
C16_ResolverNeverRaises ==
    pure.pc \in {"resolved", "again"} => pure.first[1] = "ok"

\* the site-packages directories one listing contributes, in listing order
Contributed(base, kids) ==
    LET picked == SelectSeq(kids, LAMBDA c : c.isdir /\ c.name \in PythonNames /\ c.sp)
    IN  [k \in 1..Len(picked) |-> base \o <<picked[k].name, "site-packages">>]

\* the candidates in the order they are collected: lib, lib64, Lib, _vendor, vendor
Collected(d) ==
    (IF d.venv = "dir"
     THEN (IF d.lib = "dir"
           THEN Contributed(VenvPrefix \o <<"lib">>, d.libKids)
                \o (IF d.lib64 = "dir" THEN Contributed(VenvPrefix \o <<"lib64">>, d.lib64Kids)
                    ELSE <<>>)
           ELSE <<>>)
          \o (IF d.winSP THEN <<VenvPrefix \o <<"Lib", "site-packages">>>> ELSE <<>>)
     ELSE <<>>)
    \o (IF d.uvendor = "dir" THEN <<here \o <<"_vendor">>>> ELSE <<>>)
    \o (IF d.vendor = "dir" THEN <<here \o <<"vendor">>>> ELSE <<>>)

\* r holds each element of c once, ordered by first occurrence in c
FirstOccurrenceOrder(r, c) ==
    /\ \A j, k \in 1..Len(r) : j # k => r[j] # r[k]
    /\ {r[k] : k \in 1..Len(r)} = {c[k] : k \in 1..Len(c)}
    /\ \A j, k \in 1..Len(r) : j < k => FirstIndex(r[j], c) < FirstIndex(r[k], c)

Colons(t) == Cardinality({k \in 1..Len(t) : t[k] = ":"})

\* a non-empty entrypoint string without ":" or with more than one
MalformedEntry(pl) ==
    /\ pl.manifest = "dict" /\ pl.driver = "dict"
    /\ pl.entrypoint.kind = "str" /\ pl.entrypoint.text # <<>>
    /\ Colons(pl.entrypoint.text) # 1

\* C18: without driver.entrypoint the loader looks for driver:Driver; with an
\* entrypoint that has no ":" or more than one, load_driver fails with the
\* error of the split, and never gets to look the driver file up or to execute
\* plugin code.
C18_MalformedEntryFailsBeforeLookup ==
    /\ (run.pc = "ld_locate" /\ (plugin.driver = "absent" \/ plugin.entrypoint = NoEntry)) =>
          (run.mod_name = <<"driver">> /\ run.cls_name = <<"Driver">>)
    /\ MalformedEntry(plugin) =>
          /\ run.pc \notin {"ld_locate", "ld_scope"}
          /\ ~run.located /\ ~run.executed
          /\ (run.pc = "loop_except" /\ run.ld = "raised") => run.exc = "ValueError"

\* the run got past its first load_manifest
PastManifest ==
    \/ run.pc \in {"loop_prompts", "ld_manifest", "ld_entry", "ld_locate", "ld_scope"}
    \/ run.ld # "none"

NothingInsertedNothingRun == sys_path = path0 /\ ~run.executed

\* C19: a missing plugin.yaml fails with "plugin.yaml not found", a plugin.yaml
\* that is not a mapping (a list, a scalar, an empty document) fails with
\* "plugin.yaml invalid", and a missing driver file fails with "Driver file
\* missing"; each of the three failures comes before any path is inserted into
\* sys.path and before plugin code runs, and the load does not go past the
\* failing step.
C19_FailsEarlyInStepOrder ==
    /\ plugin.manifest = "missing" =>
          /\ ~PastManifest
          /\ run.pc = "crashed" =>
                (run.exc = "RuntimeError: plugin.yaml not found" /\ NothingInsertedNothingRun)
    /\ plugin.manifest \in {"notdict", "falsy"} =>
          /\ ~PastManifest
          /\ run.pc = "crashed" =>
                (run.exc = "RuntimeError: plugin.yaml invalid" /\ NothingInsertedNothingRun)
    /\ ( /\ plugin.manifest = "dict" /\ plugin.driver # "scalar"
         /\ WellFormedEntry(EntryOf(plugin))
         /\ Split1(EntryOf(plugin).text)[1] \notin plugin.files
         /\ run.pc = "loop_except" ) =>
          (run.exc = "RuntimeError: Driver file missing" /\ NothingInsertedNothingRun)

\* scope i is the only one that has started
Alone(i) == \A j \in Scopes \ {i} : scope[j].st = "new"

IsSuffix(t, s) == Len(t) <= Len(s) /\ SubSeq(s, Len(s) - Len(t) + 1, Len(s)) = t

\* the resolved paths that were not on sys.path at acquisition, in resolver order
Fresh == SelectSeq(ResolvedPaths[2], LAMBDA p : ~InList(p, path0))

\* C20: for a load running on its own, while the with-block runs every resolved
\* path is on sys.path and the paths the acquisition inserted stand at the front
\* in the resolver's order, ahead of the entries that were there before; the
\* entries that were there before, resolved paths among them, keep their
\* places throughout, and after release sys.path is the list it was.
C20_ScopedEntriesAtFront ==
    \A i \in Scopes : Alone(i) =>
        /\ scope[i].st = "body" =>
              /\ \A k \in 1..Len(ResolvedPaths[2]) : InList(ResolvedPaths[2][k], sys_path)
              /\ sys_path = Fresh \o path0
        /\ IsSuffix(path0, sys_path)
        /\ scope[i].st \in {"returned", "raised"} => sys_path = path0

\* a scope was released on its own: it had inserted the environment's
\* site-packages, while the plugin's vendor directory, also resolved, was on
\* sys.path from the start
C20_Witness ==
    \E i \in Scopes :
        /\ Alone(i)
        /\ scope[i].st = "returned"
        /\ Len(scope[i].removed) = 1
        /\ InList(here \o <<"vendor">>, ResolvedPaths[2])
        /\ InList(here \o <<"vendor">>, path0)

====
